---- MODULE Spec2Model ----
(***************************************************************************)
(* Model of the Radar wrapper of src/src/lib.rs: a cache of four           *)
(* (scan size, tick) records over the kartoffel radar peripheral.          *)
(*                                                                         *)
(* The cache (scan_time, recent_scan_type, recent_scan_time) is the        *)
(* program's state.  The kartoffel peripherals it calls (timer_ticks,      *)
(* is_radar_ready, radar_scan, radar_read) are the environment: a tick     *)
(* counter, a readiness flag and the radar's memory.                       *)
(***************************************************************************)
EXTENDS Integers, Naturals, Sequences, FiniteSets, TLC

VARIABLES
    scan_time,          \* Radar.scan_time: ring 1..4 (index 0..3 in the source) -> <<size, tick>>
    recent_scan_type,   \* Radar.recent_scan_type
    recent_scan_time,   \* Radar.recent_scan_time
    ticks,              \* kartoffel::timer_ticks()
    radar_ready,        \* kartoffel::is_radar_ready()
    radar_mem,          \* per scan size, the tick stamp of the physical scan whose data the radar holds (-1: none)
    radar_last,         \* size of the last physical scan (0: none since start)
    radar_scans,        \* number of physical scans the radar has taken
    pc,                 \* "idle", or "wait" while Radar::wait spins
    call                \* the last call on the Radar and what it returned

cache == <<scan_time, recent_scan_type, recent_scan_time>>
radar == <<radar_ready, radar_mem, radar_last, radar_scans>>
vars  == <<scan_time, recent_scan_type, recent_scan_time, ticks, radar_ready,
           radar_mem, radar_last, radar_scans, pc, call>>

----------------------------------------------------------------------------
(* Bounds of the model *)

\* the timer advances in strides of this many ticks
TickStep == 5000
\* the timer stops advancing here
MaxTick == 25000
\* at(x, y) is called with x, y in -MaxCoord..MaxCoord
MaxCoord == 5
\* scan(size) is called with size in 0..MaxSizeArg
MaxSizeArg == 10

\* a u32 is held as two 16-bit halves: the value is hi * W16 + lo
W16 == 65536

\* the scan sizes of the radar
RadarSizes == {3, 5, 7, 9}
Rings == 1..4
Coords == (0 - MaxCoord)..MaxCoord
SizeArgs == 0..MaxSizeArg

----------------------------------------------------------------------------
(* Environment: the kartoffel peripherals *)

\* the cooldown table of time_to_next_scan (and of the doc comment of at)
Cooldown(type) ==
    CASE type = 3 -> 10000
      [] type = 5 -> 15000
      [] type = 7 -> 22000
      [] type = 9 -> 30000
      [] OTHER    -> 0

\* the documented jitter of each cooldown, in percent
Tolerance(type) ==
    CASE type = 3 -> 10
      [] type = 5 -> 15
      [] type = 7 -> 25
      [] type = 9 -> 30
      [] OTHER    -> 0

\* the shortest cooldown the radar can have after a scan of this size
MinCooldown(type) == (Cooldown(type) * (100 - Tolerance(type))) \div 100

Abs(n) == IF n < 0 THEN 0 - n ELSE n

\* the word the world shows at (x, y) to a scan stamped t
Tile(t, x, y) == 33 + (((t \div 1000) + 7 * (x + 8) + 13 * (y + 8)) % 90)

\* kartoffel::radar_read(r, dx, dy, z): the word of the last scan of size r
\* at (dx, dy); 0 where that scan holds nothing
radar_read(r, dx, dy, z) ==
    IF r \in RadarSizes /\ radar_mem[r] >= 0
       /\ Abs(dx) <= r \div 2 /\ Abs(dy) <= r \div 2 /\ z = 0
    THEN Tile(radar_mem[r], dx, dy)
    ELSE 0

\* kartoffel::radar_scan(r) followed by timer_ticks(): the radar takes a
\* scan of size r, stamps its data and starts cooling down
radar_scan(r) ==
    /\ radar_ready' = FALSE
    /\ radar_mem' = [radar_mem EXCEPT ![r] = ticks]
    /\ radar_last' = r
    /\ radar_scans' = radar_scans + 1

\* the timer advances
Tick ==
    /\ ticks + TickStep <= MaxTick
    /\ ticks' = ticks + TickStep
    /\ UNCHANGED <<cache, radar, pc, call>>

\* the radar's cooldown ends: never sooner than the shortest cooldown of the
\* last physical scan
RadarCooled ==
    /\ ~radar_ready
    /\ radar_last # 0 => ticks - radar_mem[radar_last] >= MinCooldown(radar_last)
    /\ radar_ready' = TRUE
    /\ UNCHANGED <<cache, ticks, radar_mem, radar_last, radar_scans, pc, call>>

----------------------------------------------------------------------------
(* The Radar *)

\* Radar::new starting every ring at size 3
new_all_three == [i \in Rings |-> <<3, 0>>]

\* Radar::new
new == [i \in Rings |-> <<2 * i + 1, 0>>]

\* Radar::ready
ready == radar_ready

\* the unit error value of core::fmt
Error == "Error"

\* `v as u8 as char`
AsChar(v) == v % 256

\* bigger with the comparison turned round: the smaller of |x| and |y|
bigger_min(x, y) ==
    LET a_x == Abs(x)
        a_y == Abs(y)
        b   == IF a_x < a_y THEN a_x ELSE a_y
    IN  IF b = 0 THEN 1 ELSE b

\* the larger of |x| and |y|, at least 1
bigger(x, y) ==
    LET a_x == Abs(x)
        a_y == Abs(y)
        b   == IF a_x > a_y THEN a_x ELSE a_y
    IN  IF b = 0 THEN 1 ELSE b

\* Option: None is <<>>, Some((c, t)) is <<c, t>>
None == <<>>
Some(c, t) == <<c, t>>

\* Radar::at stamping what it returns with the current tick
at_value_now(x, y) ==
    IF bigger(x, y) > 4
    THEN None
    ELSE LET scan_size == scan_time[bigger(x, y)][1]
         IN  Some(AsChar(radar_read(scan_size, x, y, 0)), ticks)

\* the value of Radar::at(x, y)
at_value(x, y) ==
    IF bigger(x, y) > 4
    THEN None
    ELSE LET scan_size  == scan_time[bigger(x, y)][1]
             scanned_at == scan_time[bigger(x, y)][2]
         IN  Some(AsChar(radar_read(scan_size, x, y, 0)), scanned_at)

\* Radar::at
at(x, y) ==
    /\ pc = "idle"
    /\ call' = [op |-> "at", x |-> x, y |-> y, ret |-> at_value(x, y)]
    /\ UNCHANGED <<cache, ticks, radar, pc>>

\* the sizes the match of Radar::scan has an arm for
ValidSizes == {3, 5, 7, 9}

\* the error of the first return of Radar::scan, taken while the radar is not ready
NotReadyError == Error

\* the `_` arm returning Ok(())
InvalidSizeOk == "Ok"

\* the error of the `_` arm of Radar::scan
InvalidSizeError == Error

\* scan_write whose arm 5 forgets scan_time[1]
scan_write_short(size, time) ==
    CASE size = 3 -> [scan_time EXCEPT ![1] = <<3, time>>]
      [] size = 5 -> [scan_time EXCEPT ![1] = <<5, time>>]
      [] size = 7 -> [scan_time EXCEPT ![1] = <<7, time>>, ![2] = <<7, time>>,
                                       ![3] = <<7, time>>]
      [] size = 9 -> [i \in Rings |-> <<9, time>>]
      [] OTHER    -> scan_time

\* scan_write whose arm 3 also writes scan_time[1]
scan_write_wide(size, time) ==
    CASE size = 3 -> [scan_time EXCEPT ![1] = <<3, time>>, ![2] = <<3, time>>]
      [] size = 5 -> [scan_time EXCEPT ![1] = <<5, time>>, ![2] = <<5, time>>]
      [] size = 7 -> [scan_time EXCEPT ![1] = <<7, time>>, ![2] = <<7, time>>,
                                       ![3] = <<7, time>>]
      [] size = 9 -> [i \in Rings |-> <<9, time>>]
      [] OTHER    -> scan_time

\* scan_write whose arm 7 writes scan_time[0] and scan_time[2] but not scan_time[1]
scan_write_gap(size, time) ==
    CASE size = 3 -> [scan_time EXCEPT ![1] = <<3, time>>]
      [] size = 5 -> [scan_time EXCEPT ![1] = <<5, time>>, ![2] = <<5, time>>]
      [] size = 7 -> [scan_time EXCEPT ![1] = <<7, time>>, ![3] = <<7, time>>]
      [] size = 9 -> [i \in Rings |-> <<9, time>>]
      [] OTHER    -> scan_time

\* scan_time as the arm of this size leaves it, `time` being the tick it read
scan_write(size, time) ==
    CASE size = 3 -> [scan_time EXCEPT ![1] = <<3, time>>]
      [] size = 5 -> [scan_time EXCEPT ![1] = <<5, time>>, ![2] = <<5, time>>]
      [] size = 7 -> [scan_time EXCEPT ![1] = <<7, time>>, ![2] = <<7, time>>,
                                       ![3] = <<7, time>>]
      [] size = 9 -> [i \in Rings |-> <<9, time>>]
      [] OTHER    -> scan_time

\* scan_recent whose arm 7 was copied from arm 5 and kept its type
scan_recent_copied(size, time) ==
    CASE size = 3 -> <<3, time>>
      [] size = 5 -> <<5, time>>
      [] size = 7 -> <<5, time>>
      [] size = 9 -> <<9, time>>
      [] OTHER    -> <<recent_scan_type, recent_scan_time>>

\* <<recent_scan_type, recent_scan_time>> as the arm of this size leaves them
scan_recent(size, time) ==
    CASE size = 3 -> <<3, time>>
      [] size = 5 -> <<5, time>>
      [] size = 7 -> <<7, time>>
      [] size = 9 -> <<9, time>>
      [] OTHER    -> <<recent_scan_type, recent_scan_time>>

\* Radar::scan without its readiness test
scan_unguarded(size) ==
    /\ pc = "idle"
    /\ IF size \in ValidSizes
       THEN /\ radar_scan(size)
            /\ LET time == ticks
               IN  /\ scan_time' = scan_write(size, time)
                   /\ recent_scan_type' = scan_recent(size, time)[1]
                   /\ recent_scan_time' = scan_recent(size, time)[2]
            /\ call' = [op |-> "scan", size |-> size, was_ready |-> ready,
                        now |-> ticks, ret |-> "Ok"]
       ELSE /\ call' = [op |-> "scan", size |-> size, was_ready |-> ready,
                        now |-> ticks, ret |-> InvalidSizeError]
            /\ UNCHANGED <<cache, radar>>
    /\ UNCHANGED <<ticks, pc>>

\* Radar::scan with radar_scan(size) hoisted above the match
scan_hoisted(size) ==
    /\ pc = "idle"
    /\ IF ~ready
       THEN /\ call' = [op |-> "scan", size |-> size, was_ready |-> FALSE,
                        now |-> ticks, ret |-> NotReadyError]
            /\ UNCHANGED <<cache, radar>>
       ELSE IF size \in ValidSizes
       THEN /\ radar_scan(size)
            /\ LET time == ticks
               IN  /\ scan_time' = scan_write(size, time)
                   /\ recent_scan_type' = scan_recent(size, time)[1]
                   /\ recent_scan_time' = scan_recent(size, time)[2]
            /\ call' = [op |-> "scan", size |-> size, was_ready |-> TRUE,
                        now |-> ticks, ret |-> "Ok"]
       ELSE /\ radar_scan(size)
            /\ call' = [op |-> "scan", size |-> size, was_ready |-> TRUE,
                        now |-> ticks, ret |-> InvalidSizeError]
            /\ UNCHANGED cache
    /\ UNCHANGED <<ticks, pc>>

\* Radar::scan gated on the cache's own countdown instead of ready()
scan_by_countdown(size) ==
    /\ pc = "idle"
    /\ IF Cooldown(recent_scan_type) - (ticks - recent_scan_time) > 0
       THEN /\ call' = [op |-> "scan", size |-> size, was_ready |-> ready,
                        now |-> ticks, ret |-> NotReadyError]
            /\ UNCHANGED <<cache, radar>>
       ELSE IF size \in ValidSizes
       THEN /\ radar_scan(size)
            /\ LET time == ticks
               IN  /\ scan_time' = scan_write(size, time)
                   /\ recent_scan_type' = scan_recent(size, time)[1]
                   /\ recent_scan_time' = scan_recent(size, time)[2]
            /\ call' = [op |-> "scan", size |-> size, was_ready |-> ready,
                        now |-> ticks, ret |-> "Ok"]
       ELSE /\ call' = [op |-> "scan", size |-> size, was_ready |-> ready,
                        now |-> ticks, ret |-> InvalidSizeError]
            /\ UNCHANGED <<cache, radar>>
    /\ UNCHANGED <<ticks, pc>>

\* Radar::scan whose arms issue radar_scan a second time
scan_twice(size) ==
    /\ pc = "idle"
    /\ IF ~ready
       THEN /\ call' = [op |-> "scan", size |-> size, was_ready |-> FALSE,
                        now |-> ticks, ret |-> NotReadyError]
            /\ UNCHANGED <<cache, radar>>
       ELSE IF size \in ValidSizes
       THEN /\ radar_ready' = FALSE
            /\ radar_mem' = [radar_mem EXCEPT ![size] = ticks]
            /\ radar_last' = size
            /\ radar_scans' = radar_scans + 2
            /\ LET time == ticks
               IN  /\ scan_time' = scan_write(size, time)
                   /\ recent_scan_type' = scan_recent(size, time)[1]
                   /\ recent_scan_time' = scan_recent(size, time)[2]
            /\ call' = [op |-> "scan", size |-> size, was_ready |-> TRUE,
                        now |-> ticks, ret |-> "Ok"]
       ELSE /\ call' = [op |-> "scan", size |-> size, was_ready |-> TRUE,
                        now |-> ticks, ret |-> InvalidSizeError]
            /\ UNCHANGED <<cache, radar>>
    /\ UNCHANGED <<ticks, pc>>

\* Radar::scan
scan(size) ==
    /\ pc = "idle"
    /\ IF ~ready
       THEN /\ call' = [op |-> "scan", size |-> size, was_ready |-> FALSE,
                        now |-> ticks, ret |-> NotReadyError]
            /\ UNCHANGED <<cache, radar>>
       ELSE IF size \in ValidSizes
       THEN /\ radar_scan(size)
            /\ LET time == ticks
               IN  /\ scan_time' = scan_write(size, time)
                   /\ recent_scan_type' = scan_recent(size, time)[1]
                   /\ recent_scan_time' = scan_recent(size, time)[2]
            /\ call' = [op |-> "scan", size |-> size, was_ready |-> TRUE,
                        now |-> ticks, ret |-> "Ok"]
       ELSE /\ call' = [op |-> "scan", size |-> size, was_ready |-> TRUE,
                        now |-> ticks, ret |-> InvalidSizeError]
            /\ UNCHANGED <<cache, radar>>
    /\ UNCHANGED <<ticks, pc>>

\* the u32 congruent to n modulo 2^32, for -2^32 <= n < 2^32
U32Of(n) ==
    [hi |-> IF n >= 0 THEN n \div W16 ELSE W16 + (n \div W16), lo |-> n % W16]

\* the outcomes of `v - time - recent_scan_time` on u32: the difference, or
\* on underflow a panic (overflow checks on) or the wrapped value (off)
ttns_values(time) ==
    LET v == Cooldown(recent_scan_type)
        d == v - time - recent_scan_time
    IN  IF v - time >= 0 /\ d >= 0
        THEN {[panic |-> FALSE, value |-> U32Of(d)]}
        ELSE {[panic |-> TRUE, value |-> U32Of(0)],
              [panic |-> FALSE, value |-> U32Of(d)]}

\* Radar::time_to_next_scan
time_to_next_scan ==
    /\ pc = "idle"
    /\ \E r \in ttns_values(ticks) :
          call' = [op |-> "time_to_next_scan", now |-> ticks, ret |-> r]
    /\ UNCHANGED <<cache, ticks, radar, pc>>

\* a call of Radar::ready
ready_call ==
    /\ pc = "idle"
    /\ call' = [op |-> "ready", ret |-> ready]
    /\ UNCHANGED <<cache, ticks, radar, pc>>

\* Radar::wait is entered
wait ==
    /\ pc = "idle"
    /\ pc' = "wait"
    /\ call' = [op |-> "wait", ret |-> "spinning"]
    /\ UNCHANGED <<cache, ticks, radar>>

\* the loop of Radar::wait with its condition turned round: `while self.ready() {}`
wait_poll_inverted ==
    /\ pc = "wait"
    /\ IF ~ready
       THEN /\ pc' = "idle"
            /\ call' = [op |-> "wait", ret |-> "returned"]
       ELSE UNCHANGED <<pc, call>>
    /\ UNCHANGED <<cache, ticks, radar>>

\* one test of the loop condition of Radar::wait
wait_poll ==
    /\ pc = "wait"
    /\ IF ready
       THEN /\ pc' = "idle"
            /\ call' = [op |-> "wait", ret |-> "returned"]
       ELSE UNCHANGED <<pc, call>>
    /\ UNCHANGED <<cache, ticks, radar>>

----------------------------------------------------------------------------

Init ==
    /\ scan_time = new
    /\ recent_scan_type = 3
    /\ recent_scan_time = 0
    /\ ticks = 0
    /\ radar_ready \in BOOLEAN
    /\ radar_mem = [r \in RadarSizes |-> -1]
    /\ radar_last = 0
    /\ radar_scans = 0
    /\ pc = "idle"
    /\ call = [op |-> "new"]

Next ==
    \/ \E x \in Coords, y \in Coords : at(x, y)
    \/ \E size \in SizeArgs : scan(size)
    \/ time_to_next_scan
    \/ ready_call
    \/ wait
    \/ wait_poll
    \/ Tick
    \/ RadarCooled

Spec == Init /\ [][Next]_vars

----------------------------------------------------------------------------
(* Properties *)

\* the half-width of (x, y): max(|x|, |y|), at least 1
HalfWidth(x, y) ==
    LET m == IF Abs(x) >= Abs(y) THEN Abs(x) ELSE Abs(y)
    IN  IF m < 1 THEN 1 ELSE m

\* the rings (1-based) a scan of size S covers: half-width <= (S - 1) / 2
CoveredBy(S) == {i \in Rings : 2 * i + 1 <= S}

\* no physical scan has covered ring i since the cache was created
NeverScanned(i) == \A S \in RadarSizes : i \in CoveredBy(S) => radar_mem[S] = -1

\* the last call was an at(x, y) that returned Some
AtReturnedSome == call.op = "at" /\ call.ret # None

\* the step is a call of scan
ScanStep == call'.op = "scan" /\ scan(call'.size)

\* the step is a call of scan that returned r
ScanReturned(r) == call'.op = "scan" /\ call'.ret = r /\ scan(call'.size)

\* C1 as stated: the timestamp at returns is the stamp of a physical scan of
\* the ring's recorded size, and the content is that scan's data
C1_Original ==
    AtReturnedSome =>
        LET h == HalfWidth(call.x, call.y)
            S == scan_time[h][1]
            T == call.ret[2]
        IN  /\ radar_mem[S] = T
            /\ call.ret[1] = AsChar(Tile(T, call.x, call.y))

\* C1 (amended): at returns the record of the ring.  Either no physical scan
\* ever covered the ring, and at returns the initial stamp 0 with the word
\* of a radar that holds no scan of that size; or the stamp is that of the
\* most recent physical scan covering the ring, which has the recorded size,
\* and the content is that scan's data at (x, y).
C1_StampIsOfTheScanRead ==
    AtReturnedSome =>
        LET h == HalfWidth(call.x, call.y)
            S == scan_time[h][1]
            T == call.ret[2]
        IN  \/ /\ NeverScanned(h)
               /\ call.ret = Some(0, 0)
            \/ /\ radar_mem[S] = T
               /\ \A R \in RadarSizes : h \in CoveredBy(R) => radar_mem[R] <= T
               /\ call.ret[1] = AsChar(Tile(T, call.x, call.y))

\* C1 witness: at returned the data of a 9-scan for the outer ring after a
\* later, smaller scan refreshed the inner rings
C1_Witness ==
    /\ AtReturnedSome
    /\ HalfWidth(call.x, call.y) = 4
    /\ scan_time[4][1] = 9
    /\ radar_mem[9] = call.ret[2]
    /\ scan_time[1][2] > call.ret[2]

\* C2: a successful scan(S) reading tick T leaves (S, T) in every ring whose
\* half-width is at most (S - 1) / 2, whatever the ring held before
C2_CoveredRingsRefreshed ==
    [][ScanReturned("Ok") =>
          LET S == call'.size
          IN  /\ S \in {3, 5, 7, 9}
              /\ \A i \in CoveredBy(S) : scan_time'[i] = <<S, ticks>>]_vars

\* C2 witness: scan(9) succeeded after an earlier scan(3); all four rings
\* hold (9, T)
C2_Witness ==
    /\ call.op = "scan" /\ call.ret = "Ok" /\ call.size = 9
    /\ radar_mem[3] >= 0 /\ radar_mem[3] < call.now
    /\ \A i \in Rings : scan_time[i] = <<9, call.now>>

\* C3: a successful scan(S) leaves every ring whose half-width exceeds
\* (S - 1) / 2 as it was
C3_UncoveredRingsKept ==
    [][ScanReturned("Ok") =>
          \A i \in Rings \ CoveredBy(call'.size) : scan_time'[i] = scan_time[i]]_vars

\* C3 witness: scan(3) at T1, then scan(5) at T2 > T1: the two inner rings
\* hold (5, T2) and the two outer rings are as created
C3_Witness ==
    /\ call.op = "scan" /\ call.ret = "Ok" /\ call.size = 5
    /\ radar_mem[3] >= 0 /\ radar_mem[3] < call.now
    /\ scan_time[1] = <<5, call.now>> /\ scan_time[2] = <<5, call.now>>
    /\ scan_time[3] = <<7, 0>> /\ scan_time[4] = <<9, 0>>

\* the shortest cooldown of the last physical scan has not passed
CoolingDown ==
    radar_last # 0 /\ ticks - radar_mem[radar_last] < MinCooldown(radar_last)

\* C4: a scan made while the radar is cooling down (it reports not ready, as
\* it does until the cooldown of the last scan has passed) returns the
\* error and changes neither the rings nor the recent scan, whatever the size
C4_NotReadyScanFails ==
    [][(ScanStep /\ (~radar_ready \/ CoolingDown)) =>
              /\ call'.ret = NotReadyError
              /\ call'.ret # "Ok"
              /\ UNCHANGED <<cache, radar>>]_vars

\* C4 witness: a scan at the very tick of a successful scan failed
C4_Witness ==
    /\ call.op = "scan" /\ call.ret = NotReadyError /\ ~call.was_ready
    /\ call.size \in {3, 5, 7, 9}
    /\ radar_last # 0 /\ radar_mem[radar_last] = call.now
    /\ call.now > 0

\* C5 as stated: the error of a scan of an invalid size is of a kind of its
\* own, distinct from the error of a scan made while the radar is not ready
C5_Original ==
    (call.op = "scan" /\ call.size \notin {3, 5, 7, 9} /\ call.was_ready) =>
        /\ call.ret # "Ok"
        /\ call.ret # NotReadyError

\* C5 (amended): scan(size) with a size outside {3, 5, 7, 9} returns the
\* error, the same error value a not-ready scan returns, and changes neither
\* the rings nor the recent scan, nor issues a physical scan
C5_InvalidSizeFails ==
    [][(ScanStep /\ call'.size \notin {3, 5, 7, 9}) =>
              /\ call'.ret # "Ok"
              /\ call'.ret = Error
              /\ UNCHANGED <<cache, radar>>]_vars

\* C5 witness: scan(4) failed on a ready radar after an earlier scan
C5_Witness ==
    /\ call.op = "scan" /\ call.size = 4 /\ call.was_ready
    /\ call.ret = Error
    /\ radar_last # 0

\* C6: at(x, y) returns None when the half-width of (x, y) exceeds 4, and
\* otherwise the stamp of ring h - 1 with the word the radar reads with that
\* ring's size at (x, y)
C6_AtReadsItsRing ==
    call.op = "at" =>
        LET h == HalfWidth(call.x, call.y)
        IN  IF h > 4
            THEN call.ret = None
            ELSE /\ call.ret # None
                 /\ call.ret[2] = scan_time[h][2]
                 /\ call.ret[1] = radar_read(scan_time[h][1], call.x, call.y, 0) % 256

\* C6 witness: at(0, 0) returned ring 0's stamp while the rings differ
C6_Witness ==
    /\ call.op = "at" /\ call.x = 0 /\ call.y = 0
    /\ call.ret # None
    /\ call.ret[2] = scan_time[1][2]
    /\ scan_time[1][2] > scan_time[2][2]
    /\ scan_time[2][2] > scan_time[3][2]

\* C7 as stated: time_to_next_scan returns
\* cooldown(recent_scan_type) - (now - recent_scan_time)
C7_Original ==
    call.op = "time_to_next_scan" =>
        /\ ~call.ret.panic
        /\ call.ret.value =
               U32Of(Cooldown(recent_scan_type) - (call.now - recent_scan_time))

\* C8 as stated: a new cache has every ring at (3, 0)
C8_Original ==
    call.op = "new" => \A i \in Rings : scan_time[i] = <<3, 0>>

\* C8 (amended): a new cache has ring i (0-based) at (2 i + 3, 0), that is
\* (3, 0), (5, 0), (7, 0), (9, 0), so that a first scan(5) at tick T yields
\* ring0 = (5, T), ring1 = (5, T), ring2 = (7, 0), ring3 = (9, 0)
C8_NewRings ==
    /\ call.op = "new" =>
          /\ scan_time = <<(<<3, 0>>), (<<5, 0>>), (<<7, 0>>), (<<9, 0>>)>>
          /\ recent_scan_type = 3
          /\ recent_scan_time = 0
    /\ (/\ call.op = "scan" /\ call.ret = "Ok" /\ call.size = 5
        /\ \A S \in RadarSizes \ {5} : radar_mem[S] = -1) =>
          scan_time = <<(<<5, call.now>>), (<<5, call.now>>), (<<7, 0>>), (<<9, 0>>)>>

\* C8 witness: the first scans of a cache were scan(5), the last at T > 0
C8_Witness ==
    /\ call.op = "scan" /\ call.ret = "Ok" /\ call.size = 5 /\ call.now > 0
    /\ \A S \in RadarSizes \ {5} : radar_mem[S] = -1
    /\ scan_time[3] = <<7, 0>>

\* C9: recent_scan_type and recent_scan_time are the size and the tick of
\* the last successful scan, and the initial (3, 0) while none succeeded
C9_RecentIsLastScan ==
    IF radar_last = 0
    THEN recent_scan_type = 3 /\ recent_scan_time = 0
    ELSE recent_scan_type = radar_last /\ recent_scan_time = radar_mem[radar_last]

\* C9 witness: a scan failed after a successful scan(7) that left the outer
\* ring with an older scan(9)
C9_Witness ==
    /\ call.op = "scan" /\ call.ret = Error
    /\ radar_last = 7 /\ recent_scan_type = 7
    /\ radar_mem[9] >= 0
    /\ scan_time[4] = <<9, radar_mem[9]>>
    /\ recent_scan_time > radar_mem[9]

\* C10: a step that changes the rings or the recent scan, or that issues a
\* physical scan, is a successful scan on a ready radar; every other call
\* (at, time_to_next_scan, ready, wait, a failing scan) leaves them alone
C10_OnlyScanMutates ==
    [][(cache' # cache \/ radar_mem' # radar_mem \/ radar_last' # radar_last
          \/ (radar_ready /\ ~radar_ready')) =>
          /\ pc = "idle" /\ radar_ready
          /\ call'.op = "scan" /\ call'.ret = "Ok"
          /\ call'.size \in {3, 5, 7, 9}]_vars

\* C10 witness: wait returned, after a scan and the spin that followed it
C10_Witness ==
    /\ call.op = "wait" /\ call.ret = "returned"
    /\ radar_last # 0
    /\ recent_scan_time > 0

\* the step is a successful scan
ScanSucceeded == call'.op = "scan" /\ call'.ret = "Ok" /\ scan(call'.size)

\* the coordinates and the sizes of the runs that repeat a query: one
\* coordinate of each half-width 0..MaxCoord, of both signs, every valid
\* size and an invalid one
IdemCoords == {0 - MaxCoord, -3, -1, 0, 2, 4}
IdemSizes == {3, 4, 5, 7, 9}

\* the calls and the environment of the runs that repeat a query
NextIdem ==
    \/ \E x \in IdemCoords, y \in IdemCoords : at(x, y)
    \/ \E size \in IdemSizes : scan(size)
    \/ time_to_next_scan
    \/ ready_call
    \/ wait
    \/ wait_poll
    \/ Tick
    \/ RadarCooled

SpecIdem == Init /\ [][NextIdem]_vars

\* C11: a call of at(x, y) returns what at(x, y) returns when called again
\* right after it, and no step other than a successful scan (ready,
\* time_to_next_scan, wait, a failing scan, a tick, the radar cooling)
\* changes what at returns for any coordinate: two calls of at(x, y) with
\* no scan between them return the same content and the same timestamp
C11_AtIsIdempotent ==
    [][IF call'.op = "at" /\ at(call'.x, call'.y)
       THEN \A x \in {call'.x}, y \in {call'.y} :
               /\ call'.ret = at_value(x, y)
               /\ at_value(x, y)' = call'.ret
       ELSE ~ScanSucceeded =>
               \A x \in IdemCoords, y \in IdemCoords :
                   at_value(x, y)' = at_value(x, y)]_vars

\* C11 witness: at returned the data of a scan after the timer advanced and
\* the radar cooled down since that scan
C11_Witness ==
    /\ AtReturnedSome
    /\ call.ret[2] > 0
    /\ ticks > call.ret[2]
    /\ radar_ready
    /\ radar_mem[scan_time[HalfWidth(call.x, call.y)][1]] = call.ret[2]

\* the same calls and environment, with the loop of Radar::wait never
\* starved: the control loop is the only thread, so once in wait it keeps
\* testing the loop condition
SpecWait == Init /\ [][Next]_vars /\ WF_vars(wait_poll)

\* C12: wait returns only at a test of ready() that saw the radar ready;
\* while it spins nothing else runs on the Radar and the cache is left
\* alone; and a wait that is entered returns if the radar ever becomes ready
C12_WaitRunsToCompletion ==
    /\ [][(pc = "wait" /\ pc' = "idle") =>
             /\ radar_ready
             /\ call' = [op |-> "wait", ret |-> "returned"]]_vars
    /\ [][pc = "wait" =>
             /\ UNCHANGED <<cache, radar_mem, radar_last>>
             /\ call' = call \/ call'.op = "wait"]_vars
    /\ (pc = "wait") ~> (pc = "idle" \/ []~radar_ready)

\* C12 witness: wait returned once the cooldown of a scan(9) had passed
C12_Witness ==
    /\ call = [op |-> "wait", ret |-> "returned"]
    /\ pc = "idle"
    /\ radar_last = 9
    /\ ticks - radar_mem[9] >= MinCooldown(9)

\* C13: scan(size) returns Ok exactly when the radar's readiness flag is
\* true at the call and size is 3, 5, 7 or 9; on a radar that is not ready it
\* returns the error for every size, valid or not; the cache's own countdown
\* plays no part
C13_ScanGate ==
    [][ScanStep =>
          /\ call'.was_ready = radar_ready
          /\ call'.ret = "Ok" <=> (radar_ready /\ call'.size \in {3, 5, 7, 9})
          /\ call'.ret # "Ok" => call'.ret = Error
          /\ ~radar_ready => call'.ret = NotReadyError /\ UNCHANGED <<cache, radar>>]_vars

\* C13 witness: a scan of a valid size failed on a radar that was not ready
\* at a tick where time_to_next_scan computes no time left
C13_Witness ==
    /\ call.op = "scan" /\ call.ret = Error /\ ~call.was_ready
    /\ call.size \in {3, 5, 7, 9}
    /\ call.now = ticks
    /\ radar_last # 0
    /\ Cooldown(recent_scan_type) - ticks - recent_scan_time <= 0

\* C14: a successful scan(S) issues exactly one physical scan, of size S,
\* and stamps the cache with the tick read as the radar stamps that scan;
\* every other step, a failing scan included, issues none
C14_OneScanPerSuccess ==
    [][IF ScanSucceeded
       THEN /\ radar_scans' = radar_scans + 1
            /\ radar_last' = call'.size
            /\ radar_mem' = [radar_mem EXCEPT ![call'.size] = ticks]
            /\ recent_scan_time' = radar_mem'[call'.size]
            /\ scan_time'[1] = <<call'.size, radar_mem'[call'.size]>>
       ELSE UNCHANGED <<radar_scans, radar_mem, radar_last>>]_vars

\* C14 witness: a scan failed after two scans had succeeded; the radar has
\* taken two physical scans
C14_Witness ==
    /\ call.op = "scan" /\ call.ret = Error
    /\ radar_scans = 2
    /\ recent_scan_time = call.now

\* C15: every ring records a size among 3, 5, 7, 9 that covers the ring
\* (ring i, 0-based, has size >= 2 (i + 1) + 1), so at never reads the radar
\* at a coordinate outside the square of the size it passes
C15_RingSizeCoversRing ==
    /\ \A i \in Rings :
          /\ scan_time[i][1] \in {3, 5, 7, 9}
          /\ scan_time[i][1] >= 2 * i + 1
    /\ \A x \in Coords, y \in Coords :
          HalfWidth(x, y) <= 4 =>
              LET size == scan_time[HalfWidth(x, y)][1]
              IN  Abs(x) <= (size - 1) \div 2 /\ Abs(y) <= (size - 1) \div 2

\* C15 witness: at read a corner of the outer ring with size 9 while the
\* inner ring holds a later scan(3)
C15_Witness ==
    /\ AtReturnedSome
    /\ call.x = 4 /\ call.y = -4
    /\ scan_time[4][1] = 9
    /\ scan_time[1][1] = 3 /\ scan_time[1][2] > 0

\* C16: the stamps of the rings do not increase outward, and no step makes
\* the stamp of a ring smaller
C16_StampsOrdered ==
    /\ [](\A i \in 1..3 : scan_time[i][2] >= scan_time[i + 1][2])
    /\ [][\A i \in Rings : scan_time'[i][2] >= scan_time[i][2]]_vars

\* C16 witness: three rings with three different stamps, the inner the later
C16_Witness ==
    /\ scan_time[1][2] > scan_time[2][2]
    /\ scan_time[2][2] > scan_time[3][2]
    /\ scan_time[3][2] >= scan_time[4][2]
    /\ radar_scans = 2

\* C17: ring 0 holds the record of the most recent scan, so
\* recent_scan_type is always 3, 5, 7 or 9 and the cooldown table never
\* takes its `_ => 0` arm
C17_Ring0IsRecent ==
    /\ scan_time[1] = <<recent_scan_type, recent_scan_time>>
    /\ recent_scan_type \in {3, 5, 7, 9}
    /\ Cooldown(recent_scan_type) >= 10000

\* C17 witness: time_to_next_scan was called after a scan(7) that followed
\* a scan of another size
C17_Witness ==
    /\ call.op = "time_to_next_scan"
    /\ recent_scan_type = 7
    /\ recent_scan_time > 0
    /\ scan_time[1] = <<7, recent_scan_time>>
    /\ radar_scans = 2

====
